---------------------------- MODULE Spec2Model ----------------------------
(***************************************************************************)
(* A model of qutebrowser's QtWebEngine tab wrapper                        *)
(* (src/qutebrowser/browser/webengine/webenginetab.py).                    *)
(*                                                                         *)
(* The tab is single-threaded and event-driven: every public method and    *)
(* every slot runs to completion, so each one is one action.  What a       *)
(* handler does to the engine (findText, setZoomFactor, runJavaScript,     *)
(* sendEvent, ...) and what it emits is recorded, in order, in `calls';    *)
(* how it ended (a return value or a raised error) is in `outcome'; which  *)
(* handler ran last is in `op'.                                            *)
(***************************************************************************)
EXTENDS Integers, Sequences, FiniteSets, TLC

VARIABLES
    \* WebEngineTab
    saved_zoom,         \* self._saved_zoom: None or a zoom factor
    zoom,               \* the widget's zoomFactor(), in percent
    url,                \* page.url()
    requested_url,      \* page.requestedUrl()
    title,              \* widget.title()
    qt_minor,           \* the Qt version is 5.<qt_minor>
    \* WebEngineSearch
    text,               \* self.text
    flags,              \* self._flags
    search_displayed,   \* self.search_displayed
    \* WebEngineScroller
    pos_px,             \* self._pos_px
    pos_perc,           \* self._pos_perc
    at_bottom,          \* self._at_bottom
    js_pending,         \* scroll-position JS queries whose callback has not run
    \* asynchronous work the event loop still holds
    timers,             \* QTimer.singleShot(0, to_point) not fired yet: their points
    find_pending,       \* findText result callbacks not run yet
    elem_pending,       \* the kinds of callbacks that element JS queries are owed
    \* what the last handler did
    op,                 \* [name, args] of the handler that ran last
    calls,              \* engine calls, emitted signals and attribute writes, in order
    outcome,            \* [kind, value]: "return" with a value, or "raise" with an error
    \* history variables (observers only; no handler reads them)
    loads_since_open,   \* load-finished events since the last openurl (-1: no openurl yet)
    captured_zoom,      \* the zoom factor read by the last openurl
    last_search         \* the arguments of the last search() and the flags it issued

vars == <<saved_zoom, zoom, url, requested_url, title, qt_minor,
          text, flags, search_displayed,
          pos_px, pos_perc, at_bottom, js_pending,
          timers, find_pending, elem_pending,
          op, calls, outcome,
          loads_since_open, captured_zoom, last_search>>

tab_vars == <<saved_zoom, zoom, url, requested_url, title>>
search_vars == <<text, flags, search_displayed>>
scroll_vars == <<pos_px, pos_perc, at_bottom, js_pending>>
ghost_tab == <<loads_since_open, captured_zoom>>

-----------------------------------------------------------------------------
(* Bounds of the model *)

MaxTextLen == 2         \* longest search text
MaxZoomSteps == 3       \* zoom factors are 50%, 100%, ... in steps of 50
MaxLoads == 3           \* load-finished events counted after an openurl
MaxExtentSteps == 2     \* scroll extents are 0, 100, ... in steps of 100
MaxPxSteps == 2         \* pixel positions are -75, 0, 75, ... in steps of 75
MaxPending == 1         \* scroll-position queries in flight
MaxSmallCount == 10     \* small repeat counts 0..MaxSmallCount
MaxOverCap == 3         \* repeat counts up to KeyPressCap + MaxOverCap
MaxTimers == 2          \* zero-delay timers waiting to fire

-----------------------------------------------------------------------------
(* Values *)

\* Python's None, and an optional value as a sequence of length 0 or 1.
None == <<>>
Some(v) == <<v>>

Min(a, b) == IF a <= b THEN a ELSE b

\* A call on the engine, an emitted signal or an attribute write.
Call(fn, args) == [fn |-> fn, args |-> args]

Return(v) == [kind |-> "return", value |-> v]
Raise(e) == [kind |-> "raise", value |-> e]

\* Characters of a search text: a lowercase letter, an uppercase letter and a
\* digit (a character without case).
LowerChars == {"a"}
UpperChars == {"B"}
Alphabet == {"a", "B", "1"}

RECURSIVE SeqsUpTo(_, _)
SeqsUpTo(S, n) ==
    IF n = 0 THEN {<<>>}
    ELSE LET shorter == SeqsUpTo(S, n - 1)
         IN shorter \cup {Append(s, c) : s \in {t \in shorter : Len(t) = n - 1}, c \in S}

Texts == SeqsUpTo(Alphabet, MaxTextLen)

\* QWebEnginePage.FindFlag
FindCaseSensitively == "FindCaseSensitively"
FindBackward == "FindBackward"

IgnoreCaseValues == {"smart", "True", "False"}

\* Qt 5.7 .. 5.10
QtMinorVersions == {7, 8, 9, 10}

\* qtutils.version_check('5.<minor>'): the running Qt is at least that version.
version_check(minor) == qt_minor >= minor

\* qtutils.version_check('5.<minor>', exact=True): it is that version.
version_check_exact(minor) == qt_minor = minor

\* WebEngineTab.key_press: a press event, then a release event.
key_press(key, modifier) ==
    << Call("send_event", <<"KeyPress", key, modifier>>),
       Call("send_event", <<"KeyRelease", key, modifier>>) >>

-----------------------------------------------------------------------------
(* WebEngineSearch *)

\* browsertab.AbstractSearch.__init__ (not under src/): no text searched, no
\* search displayed.
AbstractSearchInitText == <<>>
AbstractSearchInitDisplayed == FALSE

\* str.islower(): at least one cased character, and no cased character that
\* is not lowercase.
islower(t) ==
    /\ \E i \in 1..Len(t) : t[i] \in LowerChars
    /\ \A i \in 1..Len(t) : t[i] \notin UpperChars

\* _find calling findText before it sets search_displayed.
find_then_displayed(t, fl, caller) ==
    << Call("findText", <<t, fl, caller>>),
       Call("search_displayed=", <<TRUE>>) >>

\* WebEngineSearch._find: search_displayed is set, then findText is called.
find(t, fl, caller) ==
    << Call("search_displayed=", <<TRUE>>),
       Call("findText", <<t, fl, caller>>) >>

\* The flags search() computes from its arguments.
search_flags(t, ignore_case, reverse) ==
    LET cs == IF ignore_case = "smart"
              THEN (IF ~islower(t) THEN {FindCaseSensitively} ELSE {})
              ELSE (IF ignore_case = "False" THEN {FindCaseSensitively} ELSE {})
        bw == IF reverse THEN {FindBackward} ELSE {}
    IN cs \cup bw

\* The flags prev_result() issues: a copy of the stored flags with
\* FindBackward toggled.
prev_flags(fl) ==
    IF FindBackward \in fl THEN fl \ {FindBackward} ELSE fl \cup {FindBackward}

\* WebEngineSearch.clear: search_displayed is reset, then findText('').
clear_calls ==
    << Call("search_displayed=", <<FALSE>>),
       Call("findText", <<"">>) >>

\* The result_cb argument of a find operation: None, or a callable.
ResultCbs == {"None", "callable"}

\* The wrapped_callback closures findText still owes, as the set of their
\* kinds: the result_cb the closure holds, and whether clear() has run since
\* the find that passed it.  After a find, one more closure is owed.
find_issued(pending, result_cb) ==
    pending \cup {[cleared |-> FALSE, result_cb |-> result_cb]}

\* After clear(), every closure still owed is marked.
find_cleared(pending) ==
    {[cleared |-> TRUE, result_cb |-> e.result_cb] : e \in pending}

search(t, ignore_case, reverse, result_cb) ==
    LET fl == search_flags(t, ignore_case, reverse) IN
    /\ text' = t
    /\ flags' = fl
    /\ search_displayed' = TRUE
    /\ calls' = find(t, fl, "search")
    /\ op' = [name |-> "search", args |-> <<t, ignore_case, reverse, result_cb>>]
    /\ outcome' = Return("None")
    /\ last_search' = Some([text |-> t, ignore_case |-> ignore_case,
                            reverse |-> reverse, flags |-> fl])
    /\ find_pending' = find_issued(find_pending, result_cb)
    /\ UNCHANGED <<tab_vars, qt_minor, scroll_vars, ghost_tab, timers, elem_pending>>

\* clear() without the reset of search_displayed.
clear_keeps_displayed ==
    /\ search_displayed' = search_displayed
    /\ calls' = << Call("findText", <<"">>) >>
    /\ op' = [name |-> "clear", args |-> <<>>]
    /\ outcome' = Return("None")
    /\ UNCHANGED <<text, flags, last_search>>
    /\ find_pending' = find_cleared(find_pending)
    /\ UNCHANGED <<tab_vars, qt_minor, scroll_vars, ghost_tab, timers, elem_pending>>

clear ==
    /\ search_displayed' = FALSE
    /\ calls' = clear_calls
    /\ op' = [name |-> "clear", args |-> <<>>]
    /\ outcome' = Return("None")
    /\ UNCHANGED <<text, flags, last_search>>
    /\ find_pending' = find_cleared(find_pending)
    /\ UNCHANGED <<tab_vars, qt_minor, scroll_vars, ghost_tab, timers, elem_pending>>

\* prev_result() toggling FindBackward in self._flags itself, not in a copy.
prev_result_in_place(result_cb) ==
    /\ search_displayed' = TRUE
    /\ flags' = prev_flags(flags)
    /\ calls' = find(text, prev_flags(flags), "prev_result")
    /\ op' = [name |-> "prev_result", args |-> <<result_cb>>]
    /\ outcome' = Return("None")
    /\ UNCHANGED <<text, last_search>>
    /\ find_pending' = find_issued(find_pending, result_cb)
    /\ UNCHANGED <<tab_vars, qt_minor, scroll_vars, ghost_tab, timers, elem_pending>>

prev_result(result_cb) ==
    /\ search_displayed' = TRUE
    /\ calls' = find(text, prev_flags(flags), "prev_result")
    /\ op' = [name |-> "prev_result", args |-> <<result_cb>>]
    /\ outcome' = Return("None")
    /\ UNCHANGED <<text, flags, last_search>>
    /\ find_pending' = find_issued(find_pending, result_cb)
    /\ UNCHANGED <<tab_vars, qt_minor, scroll_vars, ghost_tab, timers, elem_pending>>

next_result(result_cb) ==
    /\ search_displayed' = TRUE
    /\ calls' = find(text, flags, "next_result")
    /\ op' = [name |-> "next_result", args |-> <<result_cb>>]
    /\ outcome' = Return("None")
    /\ UNCHANGED <<text, flags, last_search>>
    /\ find_pending' = find_issued(find_pending, result_cb)
    /\ UNCHANGED <<tab_vars, qt_minor, scroll_vars, ghost_tab, timers, elem_pending>>

\* WebEngineTab._on_load_started: on Qt >= 5.9 the search is cleared.  (The
\* base class's slot, called last, keeps the load status and is not under src/.)
on_load_started ==
    /\ IF version_check(9)
       THEN /\ search_displayed' = FALSE
            /\ calls' = clear_calls
            /\ find_pending' = find_cleared(find_pending)
       ELSE /\ search_displayed' = search_displayed
            /\ calls' = <<>>
            /\ find_pending' = find_pending
    /\ op' = [name |-> "_on_load_started", args |-> <<>>]
    /\ outcome' = Return("None")
    /\ UNCHANGED <<text, flags, last_search>>
    /\ UNCHANGED <<tab_vars, qt_minor, scroll_vars, ghost_tab, timers, elem_pending>>

\* The callback a follow_selected(tab=...) query is owed.
selected_kind(tab) == IF tab THEN "selected_tab" ELSE "selected"

\* WebEngineCaret.follow_selected(tab): with a search displayed, the search
\* is cleared and Enter (with Control for a new tab) is pressed on the
\* match; otherwise the page is asked for the selected link.
follow_selected(tab) ==
    /\ IF search_displayed
       THEN /\ search_displayed' = FALSE
            /\ calls' = clear_calls
                        \o key_press("Key_Enter",
                                     IF tab THEN "ControlModifier" ELSE "NoModifier")
            /\ find_pending' = find_cleared(find_pending)
            /\ elem_pending' = elem_pending
       ELSE /\ search_displayed' = search_displayed
            /\ calls' = << Call("run_js_async", <<"webelem", "find_selected_link">>) >>
            /\ find_pending' = find_pending
            /\ elem_pending' = elem_pending \cup {selected_kind(tab)}
    /\ op' = [name |-> "follow_selected", args |-> <<tab>>]
    /\ outcome' = Return("None")
    /\ UNCHANGED <<text, flags, last_search>>
    /\ UNCHANGED <<tab_vars, qt_minor, scroll_vars, ghost_tab, timers>>

\* What the page answers to find_selected_link: null, or an element that is
\* a link or is not.
SelectedElems == {None, Some([is_link |-> TRUE]), Some([is_link |-> FALSE])}

\* WebEngineCaret._follow_selected_cb(js_elem, tab), run for a query that is
\* owed it: a link is clicked, anything else is left alone.  (Queries of one
\* kind are told apart no further, so one may remain owed.)
follow_selected_cb(js_elem, tab) ==
    /\ selected_kind(tab) \in elem_pending
    /\ elem_pending' \in {elem_pending, elem_pending \ {selected_kind(tab)}}
    /\ calls' = IF js_elem = None
                THEN <<>>
                ELSE IF js_elem[1].is_link
                THEN << Call("elem.click", <<IF tab THEN "tab" ELSE "normal">>) >>
                ELSE <<>>
    /\ op' = [name |-> "_follow_selected_cb", args |-> <<js_elem, tab>>]
    /\ outcome' = Return("None")
    /\ UNCHANGED <<text, flags, search_displayed, last_search, find_pending>>
    /\ UNCHANGED <<tab_vars, qt_minor, scroll_vars, ghost_tab, timers>>

\* WebEngineTab.shutdown: shutting_down is emitted, on Qt 5.8 exactly the
\* search is cleared, and the widget is shut down.
shutdown ==
    /\ IF version_check_exact(8)
       THEN /\ search_displayed' = FALSE
            /\ calls' = << Call("shutting_down.emit", <<>>) >>
                        \o clear_calls
                        \o << Call("widget.shutdown", <<>>) >>
            /\ find_pending' = find_cleared(find_pending)
       ELSE /\ search_displayed' = search_displayed
            /\ calls' = << Call("shutting_down.emit", <<>>),
                           Call("widget.shutdown", <<>>) >>
            /\ find_pending' = find_pending
    /\ op' = [name |-> "shutdown", args |-> <<>>]
    /\ outcome' = Return("None")
    /\ UNCHANGED <<text, flags, last_search>>
    /\ UNCHANGED <<tab_vars, qt_minor, scroll_vars, ghost_tab, timers, elem_pending>>

\* wrapped_callback(found), the closure _find passes to findText, run by the
\* engine for one of the finds it still owes a result: it logs, and calls
\* result_cb unless that is None.  (The engine may run a closure late or
\* never; closures of one kind are told apart no further, so one may remain.)
wrapped_callback(found) ==
    \E e \in find_pending :
        /\ find_pending' \in {find_pending, find_pending \ {e}}
        /\ calls' = IF e.result_cb # "None"
                    THEN << Call("result_cb", <<found>>) >>
                    ELSE <<>>
        /\ op' = [name |-> "wrapped_callback", args |-> <<found, e.cleared>>]
        /\ outcome' = Return("None")
        /\ UNCHANGED <<text, flags, search_displayed, last_search>>
        /\ UNCHANGED <<tab_vars, qt_minor, scroll_vars, ghost_tab, timers, elem_pending>>

-----------------------------------------------------------------------------
(* Initial state: the tab after WebEngineTab.__init__ *)

ZoomFactors == {50 * k : k \in 1..MaxZoomSteps}

InvalidUrl == [valid |-> FALSE, scheme |-> "", rest |-> <<>>]

\* The tab after WebEngineTab.__init__, running on Qt 5.<v>.
InitOnQt(v) ==
    /\ saved_zoom = None
    /\ zoom = 100               \* a new view's zoomFactor() is 1.0
    /\ url = InvalidUrl
    /\ requested_url = InvalidUrl
    /\ title = <<>>
    /\ qt_minor = v
    /\ text = AbstractSearchInitText
    /\ flags = {}
    /\ search_displayed = AbstractSearchInitDisplayed
    /\ pos_px = [x |-> 0, y |-> 0]
    /\ pos_perc = <<0, 0>>
    /\ at_bottom = FALSE
    /\ js_pending = 0
    /\ timers = <<>>
    /\ find_pending = {}
    /\ elem_pending = {}
    /\ op = [name |-> "__init__", args |-> <<>>]
    /\ calls = <<>>
    /\ outcome = Return("None")
    /\ loads_since_open = -1
    /\ captured_zoom = None
    /\ last_search = None

Init == \E v \in QtMinorVersions : InitOnQt(v)

-----------------------------------------------------------------------------
(* Searching on the page *)

\* The finds pass no result_cb here (its default); what the engine and the
\* page report back is followed in SpecFind.
NextSearch ==
    \/ \E t \in Texts, ic \in IgnoreCaseValues, r \in BOOLEAN : search(t, ic, r, "None")
    \/ clear
    \/ prev_result("None")
    \/ next_result("None")
    \/ on_load_started
    \/ \E tab \in BOOLEAN : follow_selected(tab)
    \/ shutdown

SpecSearch == Init /\ [][NextSearch]_vars

\* The flags of the findText call the last find operation issued.
IssuedFlags == calls[2].args[2]
IssuedText == calls[2].args[1]

HasUpper(t) == \E i \in 1..Len(t) : t[i] \in UpperChars

\* C4 as stated: search("") and clear() each leave "search displayed" false
\* when they return.
C4_Original ==
    (op.name = "clear" \/ (op.name = "search" /\ op.args[1] = <<>>))
        => search_displayed = FALSE

\* C4 (amended): clear() leaves "search displayed" false when it returns,
\* whatever came before; search(""), like every search, leaves it true.
C4_ClearResetsSearchSets ==
    /\ op.name = "clear" => search_displayed = FALSE
    /\ op.name = "search" => search_displayed = TRUE

\* clear() has run after a search, and nothing is displayed any more.
C4_Witness ==
    /\ op.name = "clear"
    /\ last_search # None
    /\ search_displayed = FALSE

\* C5 as stated: with ignore_case 'smart' the case-sensitive flag is present
\* exactly when the text has an uppercase character (absent for texts of
\* digits only and for the empty text); with ignore_case false it is always
\* present and with ignore_case true always absent.
C5_SmartCaseByUppercase ==
    op.name = "search" =>
        LET t == op.args[1]
            ic == op.args[2]
            sensitive == FindCaseSensitively \in IssuedFlags
        IN /\ ic = "smart" => (sensitive <=> HasUpper(t))
           /\ ic = "False" => sensitive
           /\ ic = "True" => ~sensitive

\* C6: after search(text, reverse=r), prev_result and next_result leave the
\* stored text and flags as search() set them; next_result searches backward
\* iff r, prev_result iff not r, and both with the text and the other flags of
\* the search.
C6_PrevNextKeepFlags ==
    last_search # None =>
        LET s == last_search[1] IN
        /\ text = s.text
        /\ flags = s.flags
        /\ op.name \in {"next_result", "prev_result"} =>
             /\ IssuedText = s.text
             /\ IssuedFlags \ {FindBackward} = s.flags \ {FindBackward}
             /\ (FindCaseSensitively \in IssuedFlags) =
                    (FindCaseSensitively \in search_flags(s.text, s.ignore_case, FALSE))
        /\ op.name = "next_result" => ((FindBackward \in IssuedFlags) = s.reverse)
        /\ op.name = "prev_result" => ((FindBackward \in IssuedFlags) = ~s.reverse)

\* prev_result() after a backward, case-sensitive search: it searched forward.
C6_Witness ==
    /\ op.name = "prev_result"
    /\ last_search # None
    /\ last_search[1].reverse
    /\ IssuedFlags = {FindCaseSensitively}
    /\ flags = {FindCaseSensitively, FindBackward}

-----------------------------------------------------------------------------
(* Searching on the page, and the engine's result callbacks *)

\* Search texts of the finds whose results are followed.
FindTexts == {<<>>, <<"a">>, <<"B">>}

NextFind ==
    \/ \E t \in FindTexts, ic \in IgnoreCaseValues, r \in BOOLEAN, cb \in ResultCbs :
           search(t, ic, r, cb)
    \/ clear
    \/ \E cb \in ResultCbs : prev_result(cb)
    \/ \E cb \in ResultCbs : next_result(cb)
    \/ on_load_started
    \/ \E tab \in BOOLEAN : follow_selected(tab)
    \/ \E e \in SelectedElems, tab \in BOOLEAN : follow_selected_cb(e, tab)
    \/ shutdown
    \/ \E found \in BOOLEAN : wrapped_callback(found)

\* On every Qt version: a started load clears the search from 5.9 on, a
\* shutdown clears it on 5.8.
SpecFind == Init /\ [][NextFind]_vars

FindOps == {"search", "next_result", "prev_result"}

\* The value of search_displayed just before the i-th entry of the log cs of
\* an operation that started with the value d0.
displayed_before(cs, i, d0) ==
    LET writes == {j \in 1..(i - 1) : cs[j].fn = "search_displayed="}
    IN IF writes = {}
       THEN d0
       ELSE cs[CHOOSE j \in writes : \A k \in writes : k <= j].args[1]

\* C13: every find operation (search, next_result, prev_result) invokes
\* findText, and "search displayed" is already true at that moment; it is
\* true as well when the result callback of a find runs, unless clear() was
\* called since that find.
C13_DisplayedBeforeFindText ==
    [][ /\ op'.name \in FindOps =>
            /\ \E i \in 1..Len(calls') : calls'[i].fn = "findText"
            /\ \A i \in 1..Len(calls') :
                   calls'[i].fn = "findText" =>
                       displayed_before(calls', i, search_displayed)
        /\ (op'.name = "wrapped_callback" /\ ~op'.args[2]) =>
               (search_displayed /\ search_displayed')
      ]_vars

\* The result callback of a find ran while a cleared find is still owed its
\* own: no clear() came between this find and its callback, and the search
\* is displayed.
C13_Witness ==
    /\ op.name = "wrapped_callback"
    /\ op.args[2] = FALSE
    /\ calls = << Call("result_cb", <<TRUE>>) >>
    /\ \E e \in find_pending : e.cleared
    /\ search_displayed

-----------------------------------------------------------------------------
(* WebEngineTab: URLs and titles *)

\* A QUrl: whether it is valid, its scheme, and what follows "scheme:" as a
\* sequence of characters.
UrlSet ==
    { InvalidUrl,
      [valid |-> TRUE, scheme |-> "http", rest |-> <<"/", "/", "a", "/">>],
      [valid |-> TRUE, scheme |-> "https", rest |-> <<"/", "/", "a", "/", "b">>],
      [valid |-> TRUE, scheme |-> "view-source", rest |-> <<"a">>],
      [valid |-> TRUE, scheme |-> "chrome", rest |-> <<"/", "/", "b", "/">>] }

ValidUrls == {u \in UrlSet : u.valid}

\* Titles the engine reports: none, titles equal to a URL without scheme and
\* slashes, and titles of the page's own.
Titles == { <<>>, <<"a">>, <<"a", "/", "b">>, <<"/", "/", "a", "/">>, <<"T">> }

\* QUrl.toDisplayString(QUrl.RemoveScheme) of a URL whose scheme was set to
\* '': what follows the scheme; the empty string for an invalid URL.
toDisplayStringRemoveScheme(u) == IF u.valid THEN u.rest ELSE <<>>

\* str.lstrip(c) and str.rstrip(c)
RECURSIVE lstrip(_, _)
lstrip(s, c) == IF s # <<>> /\ Head(s) = c THEN lstrip(Tail(s), c) ELSE s

RECURSIVE rstrip(_, _)
rstrip(s, c) ==
    IF s # <<>> /\ s[Len(s)] = c THEN rstrip(SubSeq(s, 1, Len(s) - 1), c) ELSE s

\* str.strip(c)
strip(s, c) == rstrip(lstrip(s, c), c)

\* _on_history_trigger with the title kept as it is.
on_history_trigger_keeps_title(u, ru, t) ==
    IF ~u.valid THEN <<>>
    ELSE << Call("add_history_item.emit", <<u, ru, t>>) >>

\* WebEngineTab._on_history_trigger: what it emits for page URL u, requested
\* URL ru and title t.
on_history_trigger(u, ru, t) ==
    LET saved_title == IF t = strip(toDisplayStringRemoveScheme(u), "/")
                       THEN <<>> ELSE t
    IN IF ~u.valid THEN <<>>
       ELSE << Call("add_history_item.emit", <<u, ru, saved_title>>) >>

\* _restore_zoom that leaves self._saved_zoom set.
restore_zoom_not_consumed(sz, z) ==
    IF sz = None
    THEN [zoom |-> z, saved_zoom |-> sz, calls |-> <<>>]
    ELSE [zoom |-> sz[1], saved_zoom |-> sz,
          calls |-> << Call("setZoomFactor", <<sz[1]>>) >>]

\* WebEngineTab._restore_zoom with self._saved_zoom = sz and zoom factor z:
\* the zoom factor and self._saved_zoom afterwards, and the engine calls.
restore_zoom(sz, z) ==
    IF sz = None
    THEN [zoom |-> z, saved_zoom |-> sz, calls |-> <<>>]
    ELSE [zoom |-> sz[1], saved_zoom |-> None,
          calls |-> << Call("setZoomFactor", <<sz[1]>>) >>]

\* WebEngineTab.openurl(u) for a valid URL u: the zoom factor is saved, then
\* the view loads u.  (_openurl_prepare, of the base class, is not under src/.)
openurl(u) ==
    /\ saved_zoom' = Some(zoom)
    /\ requested_url' = u
    /\ calls' = << Call("load", <<u>>) >>
    /\ op' = [name |-> "openurl", args |-> <<u>>]
    /\ outcome' = Return("None")
    /\ loads_since_open' = 0
    /\ captured_zoom' = Some(zoom)
    /\ UNCHANGED <<zoom, url, title, qt_minor, timers, find_pending, elem_pending, search_vars, scroll_vars, last_search>>

\* The engine commits a page: page.url() and title() change.
page_changed(u, t) ==
    /\ url' = u
    /\ title' = t
    /\ calls' = <<>>
    /\ op' = [name |-> "page_changed", args |-> <<u, t>>]
    /\ outcome' = Return("None")
    /\ UNCHANGED <<saved_zoom, zoom, requested_url, qt_minor, timers, find_pending, elem_pending, search_vars,
                   scroll_vars, ghost_tab, last_search>>

\* page.loadFinished: the slots run in the order _connect_signals connected
\* them, _on_history_trigger and then _restore_zoom.  (_on_load_finished, of
\* the base class, runs last and is not under src/.)
load_finished ==
    LET r == restore_zoom(saved_zoom, zoom) IN
    /\ zoom' = r.zoom
    /\ saved_zoom' = r.saved_zoom
    /\ calls' = on_history_trigger(url, requested_url, title) \o r.calls
    /\ op' = [name |-> "load_finished", args |-> <<>>]
    /\ outcome' = Return("None")
    /\ loads_since_open' = IF loads_since_open = -1 THEN -1
                           ELSE Min(loads_since_open + 1, MaxLoads)
    /\ UNCHANGED <<url, requested_url, title, qt_minor, captured_zoom,
                   timers, find_pending, elem_pending,
                   search_vars, scroll_vars, last_search>>

\* WebEngineZoom._set_factor_internal(f): the user zooms.
set_factor(f) ==
    /\ zoom' = f
    /\ calls' = << Call("setZoomFactor", <<f>>) >>
    /\ op' = [name |-> "set_factor", args |-> <<f>>]
    /\ outcome' = Return("None")
    /\ UNCHANGED <<saved_zoom, url, requested_url, title, qt_minor,
                   timers, find_pending, elem_pending,
                   search_vars, scroll_vars, ghost_tab, last_search>>

NextTab ==
    \/ \E u \in ValidUrls : openurl(u)
    \/ \E u \in UrlSet, t \in Titles : page_changed(u, t)
    \/ load_finished
    \/ \E f \in ZoomFactors : set_factor(f)

\* No handler of NextTab reads the Qt version.
SpecTab == InitOnQt(9) /\ [][NextTab]_vars

ZoomCalls(cs) == SelectSeq(cs, LAMBDA c : c.fn = "setZoomFactor")
HistoryCalls(cs) == SelectSeq(cs, LAMBDA c : c.fn = "add_history_item.emit")

\* C1: the first load-finished after an openurl sets the zoom factor to the
\* one read at that openurl and resets the saved factor to none; every other
\* load-finished (a further one, or one before any openurl) sets no zoom
\* factor and leaves the zoom factor as it is.
C1_ZoomRestoredOncePerOpenurl ==
    [][ op'.name = "load_finished" =>
          IF loads_since_open = 0
          THEN /\ ZoomCalls(calls') = << Call("setZoomFactor", captured_zoom) >>
               /\ zoom' = captured_zoom[1]
               /\ saved_zoom' = None
          ELSE /\ ZoomCalls(calls') = <<>>
               /\ zoom' = zoom
               /\ saved_zoom' = None ]_vars

\* A second load-finished after an openurl, with the zoom factor the user
\* set after the first one still in place.
C1_Witness ==
    /\ op.name = "load_finished"
    /\ loads_since_open = 2
    /\ ZoomCalls(calls) = <<>>
    /\ saved_zoom = None
    /\ zoom # captured_zoom[1]

\* The title a URL generates: the URL displayed without scheme and without
\* surrounding slashes.
TitleOfUrl(u) == strip(toDisplayStringRemoveScheme(u), "/")

\* C9 as stated: a load-finished appends a history entry unless the URL is
\* invalid or the title is the one the URL generates; in both cases no entry
\* is appended.
C9_Original ==
    op.name = "load_finished" =>
        IF ~url.valid \/ title = TitleOfUrl(url)
        THEN HistoryCalls(calls) = <<>>
        ELSE Len(HistoryCalls(calls)) = 1

\* C9 (amended): a load-finished appends no history entry when the URL is
\* invalid; otherwise it appends exactly one, with the URL, the requested
\* URL and the title, the title replaced by the empty string when it is the
\* one the URL generates.
C9_HistoryEntryUnlessInvalid ==
    op.name = "load_finished" =>
        IF ~url.valid
        THEN HistoryCalls(calls) = <<>>
        ELSE /\ Len(HistoryCalls(calls)) = 1
             /\ HistoryCalls(calls)[1].args[1] = url
             /\ HistoryCalls(calls)[1].args[2] = requested_url
             /\ HistoryCalls(calls)[1].args[3] =
                    (IF title = TitleOfUrl(url) THEN <<>> ELSE title)

\* A load-finished on a valid URL whose title is the URL's own: the entry is
\* appended, with an empty title.
C9_Witness ==
    /\ op.name = "load_finished"
    /\ url.valid
    /\ title # <<>>
    /\ title = TitleOfUrl(url)
    /\ Len(HistoryCalls(calls)) = 1
    /\ HistoryCalls(calls)[1].args[3] = <<>>

-----------------------------------------------------------------------------
(* Operations this backend supports only in part *)

SpecialSchemes == {"view-source", "chrome"}

\* The check of serialize() without the version test.
serialize_refused_any_version(scheme) == scheme \in SpecialSchemes

\* WebEngineHistory.serialize: whether it refuses to serialize a page with
\* this URL scheme.
serialize_refused(scheme) == ~version_check(9) /\ scheme \in SpecialSchemes

\* A handler that touches neither the tab's state nor the history variables.
Untouched ==
    UNCHANGED <<tab_vars, qt_minor, timers, find_pending, elem_pending, search_vars, scroll_vars, ghost_tab, last_search>>

serialize ==
    /\ IF serialize_refused(url.scheme)
       THEN /\ calls' = <<>>
            /\ outcome' = Raise("WebTabError")
       ELSE /\ calls' = << Call("qtutils.serialize", <<"history">>) >>
            /\ outcome' = Return("blob")
    /\ op' = [name |-> "serialize", args |-> <<>>]
    /\ Untouched

\* WebEnginePrinting.check_preview_support
check_preview_support ==
    /\ calls' = <<>>
    /\ outcome' = Raise("WebTabError")
    /\ op' = [name |-> "check_preview_support", args |-> <<>>]
    /\ Untouched

\* WebEngineCaret.selection(html)
selection(html) ==
    /\ IF html
       THEN /\ calls' = <<>>
            /\ outcome' = Raise("UnsupportedOperationError")
       ELSE /\ calls' = << Call("selectedText", <<>>) >>
            /\ outcome' = Return("text")
    /\ op' = [name |-> "selection", args |-> <<html>>]
    /\ Untouched

\* WebEngineTab.networkaccessmanager
networkaccessmanager ==
    /\ calls' = <<>>
    /\ outcome' = Return("None")
    /\ op' = [name |-> "networkaccessmanager", args |-> <<>>]
    /\ Untouched

\* WebEngineTab.user_agent
user_agent ==
    /\ calls' = <<>>
    /\ outcome' = Return("None")
    /\ op' = [name |-> "user_agent", args |-> <<>>]
    /\ Untouched

\* clear_ssl_errors() as a silent no-op.
clear_ssl_errors_noop ==
    /\ calls' = <<>>
    /\ outcome' = Return("None")
    /\ op' = [name |-> "clear_ssl_errors", args |-> <<>>]
    /\ Untouched

\* WebEngineTab.clear_ssl_errors
clear_ssl_errors ==
    /\ calls' = <<>>
    /\ outcome' = Raise("UnsupportedOperationError")
    /\ op' = [name |-> "clear_ssl_errors", args |-> <<>>]
    /\ Untouched

NextCaps ==
    \/ \E u \in UrlSet, t \in Titles : page_changed(u, t)
    \/ \E f \in ZoomFactors : set_factor(f)
    \/ serialize
    \/ check_preview_support
    \/ \E html \in BOOLEAN : selection(html)
    \/ networkaccessmanager
    \/ user_agent
    \/ clear_ssl_errors

SpecCaps == Init /\ [][NextCaps]_vars

\* The last handler is one of the operations listed as unsupported.
IsHtmlSelection(o) == o.name = "selection" /\ o.args = <<TRUE>>

\* The tab's own state: everything but the record of the last handler.
tab_state == <<saved_zoom, zoom, url, requested_url, title, qt_minor,
               text, flags, search_displayed, pos_px, pos_perc, at_bottom,
               js_pending, timers, find_pending, elem_pending>>

\* C8 as stated: HTML-selection retrieval, print preview, NetworkAccessManager
\* access and SSL-error clearing each end in a raised error, with no engine
\* call and no change of the tab's state.
C8_Original ==
    [][ (\/ IsHtmlSelection(op')
         \/ op'.name \in {"check_preview_support", "networkaccessmanager",
                          "clear_ssl_errors"})
        => /\ outcome'.kind = "raise"
           /\ calls' = <<>>
           /\ tab_state' = tab_state ]_vars

\* C8 (amended): HTML-selection retrieval, print preview and SSL-error
\* clearing each end in a raised typed error, with no engine call and no
\* change of the tab's state; NetworkAccessManager access raises nothing and
\* returns None, also with no engine call and no change of state.
C8_UnsupportedRaiseExceptNam ==
    [][ /\ IsHtmlSelection(op') =>
             /\ outcome' = Raise("UnsupportedOperationError")
             /\ calls' = <<>>
             /\ tab_state' = tab_state
        /\ op'.name = "check_preview_support" =>
             /\ outcome' = Raise("WebTabError")
             /\ calls' = <<>>
             /\ tab_state' = tab_state
        /\ op'.name = "clear_ssl_errors" =>
             /\ outcome' = Raise("UnsupportedOperationError")
             /\ calls' = <<>>
             /\ tab_state' = tab_state
        /\ op'.name = "networkaccessmanager" =>
             /\ outcome' = Return("None")
             /\ calls' = <<>>
             /\ tab_state' = tab_state ]_vars

\* clear_ssl_errors() was called on a tab showing a page, and raised.
C8_Witness ==
    /\ op.name = "clear_ssl_errors"
    /\ outcome.kind = "raise"
    /\ url.valid

\* C10: on Qt older than 5.9, serialize() on a 'view-source' or 'chrome' URL
\* raises the tab error with no engine serialization and no blob; in every
\* other case it calls the engine serialization once and returns its blob.
C10_SerializeRefusesSpecialSchemes ==
    op.name = "serialize" =>
        IF qt_minor < 9 /\ url.scheme \in {"view-source", "chrome"}
        THEN /\ outcome = Raise("WebTabError")
             /\ calls = <<>>
        ELSE /\ outcome = Return("blob")
             /\ calls = << Call("qtutils.serialize", <<"history">>) >>

\* serialize() was refused on a chrome page under Qt 5.8.
C10_Witness ==
    /\ op.name = "serialize"
    /\ qt_minor = 8
    /\ url.scheme = "chrome"
    /\ outcome = Raise("WebTabError")
    /\ calls = <<>>

-----------------------------------------------------------------------------
(* WebEngineScroller: the cached scroll position *)

\* scrollWidth/Height and innerWidth/Height the page reports, and window's
\* scrollX/Y.  75 of 200 is 37.5, a half that the code rounds to the even 38.
Extents == {100 * k : k \in 0..MaxExtentSteps}
InnerExtents == {0, 100}
PxValues == {75 * k : k \in -1..MaxPxSteps}

\* A page 24 wider and 48 higher than the window, scrolled to (15, 30): 62.5
\* percent on both axes, which the code's doubles make 62.50000000000001.
OddPages ==
    { [px |-> [x |-> 15, y |-> 30],
       scroll |-> [width |-> 124, height |-> 148],
       inner |-> [width |-> 100, height |-> 100]] }

\* The value javascript scroll.pos() returns.
Snapshots ==
    [px : [x : PxValues, y : PxValues],
     scroll : [width : Extents, height : Extents],
     inner : [width : InnerExtents, height : InnerExtents]]
    \cup OddPages

Abs(n) == IF n < 0 THEN -n ELSE n

\* 2^s modulo m
RECURSIVE pow2mod(_, _)
pow2mod(s, m) == IF s = 0 THEN 1 % m ELSE (2 * pow2mod(s - 1, m)) % m

\* x * 2^e for e >= 0, and x for e < 0
shl(x, e) == IF e > 0 THEN x * 2^e ELSE x

\* The binary exponent of the double 100 / d, for 0 < d <= 1000: the e with
\* 2^e <= 100 / d < 2^(e + 1).
quotient_exp(d) ==
    CHOOSE e \in -4..6 :
        /\ shl(d, e) <= shl(100, -e)
        /\ shl(100, -(e + 1)) < shl(d, e + 1)

\* The binary exponent of the double k + 0.5, for 0 <= k <= 100000.
half_exp(k) ==
    CHOOSE e \in -1..17 : 2^(e + 1) <= 2 * k + 1 /\ 2 * k + 1 < 2^(e + 2)

\* The error of the double 100 / d, in d-ths of its last binary place:
\* 100 * 2^s / d with s = 52 - quotient_exp(d) is rounded to the nearest
\* integer, a half to the even one.
quotient_err(d) ==
    LET s == 52 - quotient_exp(d)
        r == (100 * pow2mod(s, d)) % d
        odd == (100 * pow2mod(s, 2 * d)) % (2 * d) >= d
    IN IF 2 * r < d THEN -r
       ELSE IF 2 * r > d THEN d - r
       ELSE IF odd THEN d - r ELSE -r

\* Where the double 100 / d * p lies when the exact 100 * p / d is k + 0.5
\* (0 < d, 0 <= p): 1 above it, -1 below it, 0 on it.  The product of the
\* double 100 / d and p is off by p times the error of the quotient, and is
\* itself rounded to the nearest double, which is k + 0.5 unless the product
\* is more than half a last place (a quarter below 0.5) away.
tie_side(d, p, k) ==
    LET c == quotient_err(d)
        ea == quotient_exp(d)
        ek == half_exp(k)
        l == shl(shl(2 * Abs(c) * p, ea), -ek)
        r == shl(shl(d, ek), -ea)
        off == IF k = 0 /\ c < 0 THEN 2 * l ELSE l
    IN IF off <= r THEN 0 ELSE IF c > 0 THEN 1 ELSE -1

\* Python's round(100 / d * p) in doubles, for integers 0 < d <= 1000 and
\* 0 <= p <= 1000: the nearest integer of 100 * p / d; when that is k + 0.5,
\* the double decides, and a double of exactly k + 0.5 goes to the even
\* neighbour.
round_pos(d, p) ==
    LET n == 100 * p
        k == n \div d
        rem == n - k * d
    IN IF 2 * rem > d THEN k + 1
       ELSE IF 2 * rem < d THEN k
       ELSE LET side == tie_side(d, p, k)
            IN IF side > 0 THEN k + 1
               ELSE IF side < 0 THEN k
               ELSE IF k % 2 = 0 THEN k ELSE k + 1

\* round(100 / d * p) for d # 0: division, product and round() are symmetric
\* under a change of sign.
round(d, p) ==
    IF (d < 0) = (p < 0)
    THEN round_pos(Abs(d), Abs(p))
    ELSE -round_pos(Abs(d), Abs(p))

\* The percentage of one axis without the test for d = 0: None stands for the
\* ZeroDivisionError of 100 / 0.
perc_unguarded(d, p) ==
    IF d = 0 THEN None ELSE Some(Min(100, round(d, p)))

\* update_pos_cb's percentage of one axis, for d = scroll extent - inner
\* extent and pixel position p.
perc(d, p) ==
    IF d = 0 THEN Some(0) ELSE Some(Min(100, round(d, p)))

\* WebEngineScroller._update_pos, the slot of page.scrollPositionChanged: it
\* asks the page for its scroll position.
update_pos ==
    /\ js_pending < MaxPending
    /\ js_pending' = js_pending + 1
    /\ calls' = << Call("run_js_async", <<"scroll", "pos">>) >>
    /\ op' = [name |-> "_update_pos", args |-> <<>>]
    /\ outcome' = Return("None")
    /\ UNCHANGED <<pos_px, pos_perc, at_bottom>>
    /\ UNCHANGED <<tab_vars, qt_minor, timers, find_pending, elem_pending, search_vars, ghost_tab, last_search>>

\* update_pos_cb(jsret): the callback of a scroll-position query, with None
\* (the tab was shut down) or a snapshot.
update_pos_cb(jsret) ==
    /\ js_pending > 0
    /\ js_pending' = js_pending - 1
    /\ op' = [name |-> "update_pos_cb", args |-> <<jsret>>]
    /\ IF jsret = None
       THEN /\ calls' = <<>>
            /\ outcome' = Return("None")
            /\ UNCHANGED <<pos_px, pos_perc, at_bottom>>
       ELSE LET js == jsret[1]
                dx == js.scroll.width - js.inner.width
                dy == js.scroll.height - js.inner.height
                perc_x == perc(dx, js.px.x)
                perc_y == perc(dy, js.px.y)
            IN /\ pos_px' = [x |-> js.px.x, y |-> js.px.y]
               /\ IF perc_x = None \/ perc_y = None
                  THEN /\ calls' = <<>>
                       /\ outcome' = Raise("ZeroDivisionError")
                       /\ UNCHANGED <<pos_perc, at_bottom>>
                  ELSE /\ at_bottom' = (dy >= js.px.y)
                       /\ pos_perc' = <<perc_x[1], perc_y[1]>>
                       /\ calls' = << Call("perc_changed.emit",
                                           <<perc_x[1], perc_y[1]>>) >>
                       /\ outcome' = Return("None")
    /\ UNCHANGED <<tab_vars, qt_minor, timers, find_pending, elem_pending, search_vars, ghost_tab, last_search>>

NextScroll ==
    \/ update_pos
    \/ \E js \in Snapshots : update_pos_cb(Some(js))
    \/ update_pos_cb(None)

\* No handler of NextScroll reads the Qt version.
SpecScroll == InitOnQt(9) /\ [][NextScroll]_vars

\* The last handler was the scroll-position callback, with a snapshot.
GotSnapshot == op.name = "update_pos_cb" /\ op.args[1] # None
LastSnapshot == op.args[1][1]

\* C2 as stated: after every snapshot the stored percentage of each axis is
\* within 0..100.
C2_PercWithinRange ==
    GotSnapshot =>
        /\ outcome.kind = "return"
        /\ pos_perc[1] \in 0..100
        /\ pos_perc[2] \in 0..100

\* p is the quotient n / d rounded to a nearest integer.
IsNearest(p, n, d) ==
    LET diff == p * d - n
        a == IF diff < 0 THEN -diff ELSE diff
        ad == IF d < 0 THEN -d ELSE d
    IN 2 * a <= ad

\* p is min(100, n / d rounded): below 100 it is a nearest integer of a
\* quotient of at most 99.5, and it is 100 only for a quotient of at least 99.5.
IsCappedRatio(p, n, d) ==
    LET nn == IF d < 0 THEN -n ELSE n
        dd == IF d < 0 THEN -d ELSE d
    IN \/ p < 100 /\ IsNearest(p, n, d) /\ 2 * nn <= 199 * dd
       \/ p = 100 /\ 2 * nn >= 199 * dd

\* C3: a snapshot whose scroll extent equals its inner extent on an axis
\* stores exactly 0 for that axis, whatever the pixel position, and the
\* callback ends without a division by zero; the other axis gets the
\* percentage of its own values.
C3_ZeroRangeGivesZero ==
    GotSnapshot =>
        LET js == LastSnapshot
            dx == js.scroll.width - js.inner.width
            dy == js.scroll.height - js.inner.height
        IN /\ outcome = Return("None")
           /\ dx = 0 => pos_perc[1] = 0
           /\ dy = 0 => pos_perc[2] = 0
           /\ dx # 0 => IsCappedRatio(pos_perc[1], 100 * js.px.x, dx)
           /\ dy # 0 => IsCappedRatio(pos_perc[2], 100 * js.px.y, dy)

\* A snapshot with no horizontal range, scrolled to x = 75, and a vertical
\* range of 200 scrolled to y = 75: 0 and 38 percent.
C3_Witness ==
    /\ GotSnapshot
    /\ LastSnapshot.scroll.width = LastSnapshot.inner.width
    /\ LastSnapshot.scroll.width = 100
    /\ LastSnapshot.px.x = 75
    /\ pos_px = [x |-> 75, y |-> 75]
    /\ pos_perc = <<0, 38>>

-----------------------------------------------------------------------------
(* WebEngineScroller: scrolling by synthesized key presses *)

\* The cap of _repeated_key_press.
KeyPressCap == 5000

ScrollKeys == [up |-> "Key_Up", down |-> "Key_Down", left |-> "Key_Left",
               right |-> "Key_Right", page_up |-> "Key_PageUp",
               page_down |-> "Key_PageDown"]

Directions == DOMAIN ScrollKeys

Counts == (0..MaxSmallCount) \cup ((KeyPressCap - 2)..(KeyPressCap + MaxOverCap))

\* _repeated_key_press without the cap.
repeated_key_press_uncapped(key, count, modifier) ==
    [i \in 1..(2 * count) |-> key_press(key, modifier)[2 - (i % 2)]]

\* WebEngineScroller._repeated_key_press: key_press, min(count, 5000) times.
repeated_key_press(key, count, modifier) ==
    [i \in 1..(2 * Min(count, KeyPressCap)) |-> key_press(key, modifier)[2 - (i % 2)]]

\* up, down, left, right, page_up, page_down
scroll_key(dir, count) ==
    /\ calls' = repeated_key_press(ScrollKeys[dir], count, "NoModifier")
    /\ op' = [name |-> dir, args |-> <<count>>]
    /\ outcome' = Return("None")
    /\ Untouched

\* WebEngineScroller.top
top ==
    /\ calls' = key_press("Key_Home", "NoModifier")
    /\ op' = [name |-> "top", args |-> <<>>]
    /\ outcome' = Return("None")
    /\ Untouched

\* WebEngineScroller.bottom
bottom ==
    /\ calls' = key_press("Key_End", "NoModifier")
    /\ op' = [name |-> "bottom", args |-> <<>>]
    /\ outcome' = Return("None")
    /\ Untouched

NextKeys ==
    \/ \E dir \in Directions, count \in Counts : scroll_key(dir, count)
    \/ top
    \/ bottom

\* No handler of NextKeys reads the Qt version.
SpecKeys == InitOnQt(9) /\ [][NextKeys]_vars

\* C7: a directional scroll called with count sends exactly min(count, 5000)
\* pairs of a key press immediately followed by its release, all of the key
\* of that direction: count pairs up to 5000, and 5000 pairs beyond.
C7_KeyPressPairsCapped ==
    op.name \in Directions =>
        LET count == op.args[1]
            pairs == IF count > 5000 THEN 5000 ELSE count
        IN /\ Len(calls) = 2 * pairs
           /\ \A i \in 1..pairs :
                /\ calls[2 * i - 1] =
                     Call("send_event", <<"KeyPress", ScrollKeys[op.name], "NoModifier">>)
                /\ calls[2 * i] =
                     Call("send_event", <<"KeyRelease", ScrollKeys[op.name], "NoModifier">>)

\* page_down with a count above the cap sent 5000 pairs.
C7_Witness ==
    /\ op.name = "page_down"
    /\ op.args[1] = 5001
    /\ Len(calls) = 10000
    /\ calls[10000].args = <<"KeyRelease", "Key_PageDown", "NoModifier">>

-----------------------------------------------------------------------------
(* WebEngineElements: the element at a position *)

\* Coordinates of the points find_at_pos is called with.
Coords == {-1, 0, 1, 3, 5, 10}

\* QPoint's operator/=: a coordinate c >= 0 divided by the zoom factor z (in
\* percent) and rounded to the nearest integer, a half upwards (qRound).
qpoint_div(c, z) == (200 * c + z) \div (2 * z)

\* find_at_pos passing the position as it is.
find_at_pos_js_unscaled(x, y, z) ==
    << Call("run_js_async", <<"webelem", "find_at_pos", x, y>>) >>

\* WebEngineElements.find_at_pos: the JS query for a point with x, y >= 0
\* under zoom factor z.
find_at_pos_js(x, y, z) ==
    << Call("run_js_async",
            <<"webelem", "find_at_pos", qpoint_div(x, z), qpoint_div(y, z)>>) >>

\* WebEngineElements.find_at_pos(pos, callback)
find_at_pos(x, y) ==
    /\ op' = [name |-> "find_at_pos", args |-> <<x, y>>]
    /\ IF x < 0 \/ y < 0
       THEN /\ calls' = <<>>
            /\ outcome' = Raise("AssertionError")
            /\ elem_pending' = elem_pending
       ELSE /\ calls' = find_at_pos_js(x, y, zoom)
            /\ outcome' = Return("None")
            /\ elem_pending' = elem_pending \cup {"single"}
    /\ UNCHANGED <<tab_vars, qt_minor, timers, find_pending, search_vars,
                   scroll_vars, ghost_tab, last_search>>

ElemIds == {"x", "y"}
Selectors == {"a", "div"}

\* WebEngineElements.find_id(elem_id, callback)
find_id(elem_id) ==
    /\ calls' = << Call("run_js_async", <<"webelem", "find_id", elem_id>>) >>
    /\ elem_pending' = elem_pending \cup {"single"}
    /\ op' = [name |-> "find_id", args |-> <<elem_id>>]
    /\ outcome' = Return("None")
    /\ UNCHANGED <<tab_vars, qt_minor, timers, find_pending, search_vars,
                   scroll_vars, ghost_tab, last_search>>

\* WebEngineElements.find_focused(callback)
find_focused ==
    /\ calls' = << Call("run_js_async", <<"webelem", "find_focused">>) >>
    /\ elem_pending' = elem_pending \cup {"single"}
    /\ op' = [name |-> "find_focused", args |-> <<>>]
    /\ outcome' = Return("None")
    /\ UNCHANGED <<tab_vars, qt_minor, timers, find_pending, search_vars,
                   scroll_vars, ghost_tab, last_search>>

\* WebEngineElements.find_css(selector, callback, only_visible)
find_css(selector, only_visible) ==
    /\ calls' = << Call("run_js_async",
                        <<"webelem", "find_css", selector, only_visible>>) >>
    /\ elem_pending' = elem_pending \cup {"multiple"}
    /\ op' = [name |-> "find_css", args |-> <<selector, only_visible>>]
    /\ outcome' = Return("None")
    /\ UNCHANGED <<tab_vars, qt_minor, timers, find_pending, search_vars,
                   scroll_vars, ghost_tab, last_search>>

\* What the page answers to a query for one element: null, or an element.
JsElems == {None, Some("elem")}

\* What it answers to find_css: null, or a list of elements.
JsElemLists == {None, Some(<<>>), Some(<<"elem">>), Some(<<"elem", "elem">>)}

\* WebEngineElements._js_cb_single(callback, js_elem), run for a query that
\* is owed it: it calls the caller's callback with None or the element.
\* (Queries of one kind are told apart no further, so one may remain owed.)
js_cb_single(js_elem) ==
    /\ "single" \in elem_pending
    /\ elem_pending' \in {elem_pending, elem_pending \ {"single"}}
    /\ calls' = << Call("callback", <<js_elem>>) >>
    /\ op' = [name |-> "_js_cb_single", args |-> <<js_elem>>]
    /\ outcome' = Return("None")
    /\ UNCHANGED <<tab_vars, qt_minor, timers, find_pending, search_vars,
                   scroll_vars, ghost_tab, last_search>>

\* WebEngineElements._js_cb_multiple(callback, js_elems): the caller's
\* callback gets None, or the list with every element wrapped.
js_cb_multiple(js_elems) ==
    /\ "multiple" \in elem_pending
    /\ elem_pending' \in {elem_pending, elem_pending \ {"multiple"}}
    /\ calls' = << Call("callback", <<js_elems>>) >>
    /\ op' = [name |-> "_js_cb_multiple", args |-> <<js_elems>>]
    /\ outcome' = Return("None")
    /\ UNCHANGED <<tab_vars, qt_minor, timers, find_pending, search_vars,
                   scroll_vars, ghost_tab, last_search>>

NextElements ==
    \/ \E x \in Coords, y \in Coords : find_at_pos(x, y)
    \/ \E id \in ElemIds : find_id(id)
    \/ find_focused
    \/ \E sel \in Selectors, vis \in BOOLEAN : find_css(sel, vis)
    \/ \E e \in JsElems : js_cb_single(e)
    \/ \E es \in JsElemLists : js_cb_multiple(es)
    \/ \E f \in ZoomFactors : set_factor(f)

\* No handler of NextElements reads the Qt version.
SpecElements == InitOnQt(9) /\ [][NextElements]_vars

CallbackCalls(cs) == SelectSeq(cs, LAMBDA c : c.fn = "callback")

\* q is c divided by the zoom factor z / 100, rounded to a nearest integer.
IsScaled(q, c, z) ==
    LET diff == q * z - 100 * c
        a == IF diff < 0 THEN -diff ELSE diff
    IN 2 * a <= z

\* C11: find_at_pos with a negative x or y fails on its precondition with no
\* JS issued and no callback owed or called; with x, y >= 0 it issues exactly
\* one JS query, whose coordinates are those of the point divided by the
\* current zoom factor (as whole pixels).  The caller's callback is only
\* called for a query that was issued.
C11_FindAtPosPrecondition ==
    [][ /\ op'.name = "find_at_pos" =>
             LET x == op'.args[1]
                 y == op'.args[2]
             IN IF x < 0 \/ y < 0
                THEN /\ outcome' = Raise("AssertionError")
                     /\ calls' = <<>>
                     /\ elem_pending' = elem_pending
                ELSE /\ outcome' = Return("None")
                     /\ Len(calls') = 1
                     /\ calls'[1].fn = "run_js_async"
                     /\ calls'[1].args[1] = "webelem"
                     /\ calls'[1].args[2] = "find_at_pos"
                     /\ IsScaled(calls'[1].args[3], x, zoom)
                     /\ IsScaled(calls'[1].args[4], y, zoom)
                     /\ elem_pending' = elem_pending \cup {"single"}
        /\ CallbackCalls(calls') # <<>> => elem_pending # {} ]_vars

\* find_at_pos((10, 5)) under a zoom factor of 150%: the query asks for (7, 3).
C11_Witness ==
    /\ op.name = "find_at_pos"
    /\ op.args = <<10, 5>>
    /\ zoom = 150
    /\ calls = << Call("run_js_async", <<"webelem", "find_at_pos", 7, 3>>) >>
    /\ elem_pending = {"single"}

-----------------------------------------------------------------------------
(* WebEngineTab: the render process terminated *)

\* QWebEnginePage.RenderProcessTerminationStatus
NormalTerminationStatus == 0
AbnormalTerminationStatus == 1
CrashedTerminationStatus == 2
KilledTerminationStatus == 3

\* The statuses _on_render_process_terminated knows: the engine's four, and -1.
EngineStatuses == {NormalTerminationStatus, AbnormalTerminationStatus,
                   CrashedTerminationStatus, KilledTerminationStatus, -1}

ExitCodes == {0, 1, 9, 255, 256, 257}

\* status_map: the engine's status as a browsertab.TerminationStatus.
status_map(status) ==
    CASE status = NormalTerminationStatus -> "normal"
      [] status = AbnormalTerminationStatus -> "abnormal"
      [] status = CrashedTerminationStatus -> "crashed"
      [] status = KilledTerminationStatus -> "killed"
      [] status = -1 -> "unknown"

\* The reported reason without the workaround for QTBUG-58697.
termination_reason_no_workaround(status, exitcode) == status_map(status)

\* The reason _on_render_process_terminated reports: an abnormal termination
\* with exit code 256 counts as a crash.
termination_reason(status, exitcode) ==
    IF status = AbnormalTerminationStatus /\ exitcode = 256
    THEN status_map(CrashedTerminationStatus)
    ELSE status_map(status)

\* WebEngineTab._on_render_process_terminated(status, exitcode)
on_render_process_terminated(status, exitcode) ==
    /\ calls' = << Call("renderer_process_terminated.emit",
                        <<termination_reason(status, exitcode), exitcode>>) >>
    /\ op' = [name |-> "_on_render_process_terminated", args |-> <<status, exitcode>>]
    /\ outcome' = Return("None")
    /\ Untouched

NextRender ==
    \/ \E u \in ValidUrls : openurl(u)
    \/ \E st \in EngineStatuses, code \in ExitCodes :
           on_render_process_terminated(st, code)

\* No handler of NextRender reads the Qt version.
SpecRender == InitOnQt(9) /\ [][NextRender]_vars

\* C12: every render-process-terminated event is reported exactly once, with
\* its exit code unchanged and a reason among normal, abnormal, crashed, killed
\* and unknown: normal, crashed and killed as themselves, -1 as unknown,
\* abnormal as crashed when the exit code is 256 and as abnormal otherwise.
C12_TerminationReasonNormalized ==
    op.name = "_on_render_process_terminated" =>
        LET status == op.args[1]
            exitcode == op.args[2]
        IN /\ Len(calls) = 1
           /\ calls[1].fn = "renderer_process_terminated.emit"
           /\ calls[1].args[2] = exitcode
           /\ calls[1].args[1] \in {"normal", "abnormal", "crashed", "killed", "unknown"}
           /\ status = 0 => calls[1].args[1] = "normal"
           /\ status = 2 => calls[1].args[1] = "crashed"
           /\ status = 3 => calls[1].args[1] = "killed"
           /\ status = -1 => calls[1].args[1] = "unknown"
           /\ (status = 1 /\ exitcode = 256) => calls[1].args[1] = "crashed"
           /\ (status = 1 /\ exitcode # 256) => calls[1].args[1] = "abnormal"

\* An abnormal termination with exit code 256 was reported as a crash.
C12_Witness ==
    /\ op.name = "_on_render_process_terminated"
    /\ op.args = <<1, 256>>
    /\ calls = << Call("renderer_process_terminated.emit", <<"crashed", 256>>) >>

-----------------------------------------------------------------------------
(* WebEngineHistory: loading history items *)

Origin == [x |-> 0, y |-> 0]

\* Scroll positions a history item's sidecar may carry.
ScrollPositions == {Origin, [x |-> 0, y |-> 75], [x |-> 75, y |-> 150]}

\* cur_data as tabhistory.serialize returns it: None, or the user data of the
\* active item, with or without the keys 'zoom' and 'scroll-pos'.
CurData ==
    {None} \cup
    {Some(d) : d \in [zoom : {None} \cup {Some(f) : f \in ZoomFactors},
                      scroll_pos : {None} \cup {Some(q) : q \in ScrollPositions}]}

\* The pages whose scroll position the tab learns here: nothing to scroll
\* horizontally or vertically beyond the window, at four positions.
PagePositions ==
    {js \in Snapshots :
        /\ js.scroll = [width |-> 100, height |-> 100]
        /\ js.inner = [width |-> 100, height |-> 100]
        /\ js.px.x \in {0, 75}
        /\ js.px.y \in {0, 75}}

\* load_items restoring the scroll position wherever the tab is scrolled to.
restore_scheduled_any_pos(cur_data, px) ==
    /\ cur_data # None
    /\ cur_data[1].scroll_pos # None

\* Whether load_items defers a scroll restore: cur_data has 'scroll-pos' and
\* scroller.pos_px() is QPoint(0, 0).
restore_scheduled(cur_data, px) ==
    /\ cur_data # None
    /\ cur_data[1].scroll_pos # None
    /\ px = Origin

\* WebEngineHistory.load_items(items), for the cur_data the items give: the
\* history is deserialized, the zoom of the sidecar is set, and the scroll
\* restore is handed to a zero-delay timer.
load_items(cur_data) ==
    LET has_zoom == cur_data # None /\ cur_data[1].zoom # None
        sched == restore_scheduled(cur_data, pos_px)
    IN /\ sched => Len(timers) < MaxTimers
       /\ zoom' = IF has_zoom THEN cur_data[1].zoom[1] ELSE zoom
       /\ timers' = IF sched THEN Append(timers, cur_data[1].scroll_pos[1]) ELSE timers
       /\ calls' = << Call("deserialize_stream", <<>>) >>
                   \o (IF has_zoom
                       THEN << Call("setZoomFactor", <<cur_data[1].zoom[1]>>) >>
                       ELSE <<>>)
                   \o (IF sched
                       THEN << Call("QTimer.singleShot",
                                    <<0, "to_point", cur_data[1].scroll_pos[1]>>) >>
                       ELSE <<>>)
       /\ op' = [name |-> "load_items", args |-> <<cur_data>>]
       /\ outcome' = Return("None")
       /\ UNCHANGED <<saved_zoom, url, requested_url, title, qt_minor,
                      find_pending, elem_pending,
                      search_vars, scroll_vars, ghost_tab, last_search>>

\* WebEngineScroller.to_point(point)
to_point_js(point) ==
    << Call("run_js_async", <<"window", "scroll", point.x, point.y>>) >>

\* The oldest zero-delay timer fires: the event loop calls the to_point that
\* load_items bound to the sidecar's position.
timer_timeout ==
    /\ timers # <<>>
    /\ timers' = Tail(timers)
    /\ calls' = to_point_js(Head(timers))
    /\ op' = [name |-> "timer_timeout", args |-> <<Head(timers)>>]
    /\ outcome' = Return("None")
    /\ UNCHANGED <<tab_vars, qt_minor, find_pending, elem_pending,
                   search_vars, scroll_vars, ghost_tab, last_search>>

NextHistory ==
    \/ \E d \in CurData : load_items(d)
    \/ timer_timeout
    \/ update_pos
    \/ \E js \in PagePositions : update_pos_cb(Some(js))
    \/ update_pos_cb(None)

\* The event loop handles events in any order, and does not starve a timer
\* that is due.  No handler of NextHistory reads the Qt version.
SpecHistory == InitOnQt(9) /\ [][NextHistory]_vars /\ WF_timers(timer_timeout)

IsScrollCall(c) == c.fn = "run_js_async" /\ c.args[1] = "window" /\ c.args[2] = "scroll"
IsTimerCall(c) == c.fn = "QTimer.singleShot"

\* What load_items does about the scroll position: it schedules the restore
\* iff the sidecar has a scroll position and the cached position is the
\* origin, and issues no scroll command itself.
LoadItemsSchedules ==
    op'.name = "load_items" =>
        LET d == op'.args[1]
            wanted == d # None /\ d[1].scroll_pos # None /\ pos_px = Origin
        IN /\ \A i \in 1..Len(calls') : ~IsScrollCall(calls'[i])
           /\ wanted => /\ timers' = Append(timers, d[1].scroll_pos[1])
                        /\ Cardinality({i \in 1..Len(calls') : IsTimerCall(calls'[i])}) = 1
           /\ ~wanted => /\ timers' = timers
                         /\ \A i \in 1..Len(calls') : ~IsTimerCall(calls'[i])

\* A scroll command is issued only by a timer that load_items scheduled, once
\* per timer, with the position of the sidecar.
ScrollOnlyByTimer ==
    /\ (\E i \in 1..Len(calls') : IsScrollCall(calls'[i])) => op'.name = "timer_timeout"
    /\ op'.name = "timer_timeout" =>
           /\ timers # <<>>
           /\ timers' = Tail(timers)
           /\ calls' = << Call("run_js_async",
                               <<"window", "scroll", Head(timers).x, Head(timers).y>>) >>
    /\ op'.name \notin {"timer_timeout", "load_items"} => timers' = timers

\* Every scheduled restore is issued in the end.
RestoreIssued ==
    \A q \in ScrollPositions :
        (timers # <<>> /\ Head(timers) = q)
            ~> (IF op.name = "timer_timeout" THEN op.args = <<q>> ELSE FALSE)

\* C14 as stated: load_items schedules a scroll restore iff the sidecar has a
\* scroll position and the cached pixel position is the origin; the scroll
\* command is not issued during load_items but after it returned and before
\* any other event is handled, exactly once, with the sidecar's position;
\* when nothing is scheduled no scroll command is issued.
C14_Original ==
    [][ /\ LoadItemsSchedules
        /\ ScrollOnlyByTimer
        /\ timers # <<>> => op'.name = "timer_timeout"
      ]_vars

\* C14 (amended): load_items schedules a scroll restore iff the sidecar has a
\* scroll position and the cached pixel position is the origin; the scroll
\* command is not issued during load_items but when the zero-delay timer
\* fires, before or after other events are handled, exactly once and with the
\* sidecar's position; when nothing is scheduled no scroll command is issued.
C14_ScrollRestoreDeferred ==
    /\ [][LoadItemsSchedules /\ ScrollOnlyByTimer]_vars
    /\ RestoreIssued

\* The timer of a restore to (75, 150) fired after the page had reported that
\* it is scrolled away from the origin: other events were handled in between.
C14_Witness ==
    /\ op.name = "timer_timeout"
    /\ op.args = << [x |-> 75, y |-> 150] >>
    /\ calls = << Call("run_js_async", <<"window", "scroll", 75, 150>>) >>
    /\ pos_px # Origin
    /\ timers = <<>>

-----------------------------------------------------------------------------
(* WebEngineScroller: scroll commands and getters *)

\* Pages twice the size of the window in both directions, at every position.
ScrolledPages ==
    {js \in Snapshots :
        /\ js.scroll = [width |-> 200, height |-> 200]
        /\ js.inner = [width |-> 100, height |-> 100]}

\* Arguments of to_perc: None, or a percentage.
PercArgs == {None, Some(0), Some(50)}

\* Arguments of delta and delta_page.
DeltaArgs == {-1, 0, 2}

\* Repeat counts of the directional commands.
CmdCounts == {0, 1, 2}

UnchangedButScrollCmd ==
    UNCHANGED <<tab_vars, qt_minor, timers, find_pending, elem_pending, search_vars,
                scroll_vars, ghost_tab, last_search>>

\* WebEngineScroller.to_perc(x, y)
to_perc(x, y) ==
    /\ calls' = << Call("run_js_async", <<"scroll", "to_perc", x, y>>) >>
    /\ op' = [name |-> "to_perc", args |-> <<x, y>>]
    /\ outcome' = Return("None")
    /\ UnchangedButScrollCmd

\* to_point taking the position it scrolls to as the tab's position.
to_point_moves_cache(point) ==
    /\ calls' = to_point_js(point)
    /\ op' = [name |-> "to_point", args |-> <<point>>]
    /\ outcome' = Return("None")
    /\ pos_px' = point
    /\ UNCHANGED <<tab_vars, qt_minor, timers, find_pending, elem_pending, search_vars,
                   pos_perc, at_bottom, js_pending, ghost_tab, last_search>>

\* WebEngineScroller.to_point(point)
to_point(point) ==
    /\ calls' = to_point_js(point)
    /\ op' = [name |-> "to_point", args |-> <<point>>]
    /\ outcome' = Return("None")
    /\ UnchangedButScrollCmd

\* WebEngineScroller.delta(x, y)
delta(x, y) ==
    /\ calls' = << Call("run_js_async", <<"window", "scrollBy", x, y>>) >>
    /\ op' = [name |-> "delta", args |-> <<x, y>>]
    /\ outcome' = Return("None")
    /\ UnchangedButScrollCmd

\* WebEngineScroller.delta_page(x, y)
delta_page(x, y) ==
    /\ calls' = << Call("run_js_async", <<"scroll", "delta_page", x, y>>) >>
    /\ op' = [name |-> "delta_page", args |-> <<x, y>>]
    /\ outcome' = Return("None")
    /\ UnchangedButScrollCmd

\* WebEngineScroller.pos_px()
get_pos_px ==
    /\ calls' = <<>>
    /\ op' = [name |-> "pos_px", args |-> <<>>]
    /\ outcome' = Return(pos_px)
    /\ UnchangedButScrollCmd

\* WebEngineScroller.pos_perc()
get_pos_perc ==
    /\ calls' = <<>>
    /\ op' = [name |-> "pos_perc", args |-> <<>>]
    /\ outcome' = Return(pos_perc)
    /\ UnchangedButScrollCmd

\* WebEngineScroller.at_top()
at_top ==
    /\ calls' = <<>>
    /\ op' = [name |-> "at_top", args |-> <<>>]
    /\ outcome' = Return(pos_px.y = 0)
    /\ UnchangedButScrollCmd

\* WebEngineScroller.at_bottom()
get_at_bottom ==
    /\ calls' = <<>>
    /\ op' = [name |-> "at_bottom", args |-> <<>>]
    /\ outcome' = Return(at_bottom)
    /\ UnchangedButScrollCmd

NextScrollCmds ==
    \/ \E x \in PercArgs, y \in PercArgs : to_perc(x, y)
    \/ \E q \in ScrollPositions : to_point(q)
    \/ \E x \in DeltaArgs, y \in DeltaArgs : delta(x, y)
    \/ \E x \in DeltaArgs, y \in DeltaArgs : delta_page(x, y)
    \/ \E dir \in Directions, count \in CmdCounts : scroll_key(dir, count)
    \/ top
    \/ bottom
    \/ get_pos_px
    \/ get_pos_perc
    \/ at_top
    \/ get_at_bottom
    \/ update_pos
    \/ \E js \in ScrolledPages : update_pos_cb(Some(js))
    \/ update_pos_cb(None)

\* No handler of NextScrollCmds reads the Qt version.
SpecScrollCmds == InitOnQt(9) /\ [][NextScrollCmds]_vars

\* The step is update_pos_cb receiving a snapshot / receiving None.
CallbackGotSnapshot ==
    IF op'.name = "update_pos_cb" THEN op'.args[1] # None ELSE FALSE
CallbackGotNone ==
    IF op'.name = "update_pos_cb" THEN op'.args[1] = None ELSE FALSE

Getters == {"pos_px", "pos_perc", "at_top", "at_bottom"}

\* C15: the cached pixel position, percentages and at-bottom flag change only
\* when the scroll-position callback receives a snapshot: scroll commands,
\* getters and a callback receiving None leave them as they are; a getter
\* does nothing else, and a callback receiving None emits no perc_changed.
C15_CacheChangesOnlyBySnapshot ==
    [][ /\ <<pos_px, pos_perc, at_bottom>>' # <<pos_px, pos_perc, at_bottom>>
            => CallbackGotSnapshot
        /\ op'.name \in Getters => calls' = <<>>
        /\ CallbackGotNone =>
               \A i \in 1..Len(calls') : calls'[i].fn # "perc_changed.emit"
      ]_vars

\* to_point(0, 75) was called on a tab whose cache says (75, 150), 75% and
\* 100%, not at the bottom: the cache still says so.
C15_Witness ==
    /\ op.name = "to_point"
    /\ op.args = << [x |-> 0, y |-> 75] >>
    /\ pos_px = [x |-> 75, y |-> 150]
    /\ pos_perc = <<75, 100>>
    /\ ~at_bottom

=============================================================================
